---------------------------- MODULE Spec2Model ----------------------------
(***************************************************************************)
(* Model of the page-acquisition protocol of digest-mcp (src/index.ts,     *)
(* class BrowserlessServer).  Every request is an async call chain         *)
(* handleWebContentRequest -> fetchWebContent -> ...; the JavaScript run   *)
(* time runs the code between two awaits atomically, so the model has one  *)
(* action per await point: the action consumes the result of the awaited   *)
(* call (success, or an error thrown by the remote browser), runs the code *)
(* up to the next await, and leaves pc[r] at that await.                   *)
(*                                                                         *)
(* Time is counted in milliseconds.  sleep(ms) lasts ms; a height poll     *)
(* (a round trip to the remote browser) lasts 0 or PollLatency ms.         *)
(* Error messages are sequences of words; String.includes is modelled as   *)
(* contiguous sub-sequence search.  What the remote browser returns as     *)
(* content is named by the call that returned it: "outerHTML" for the      *)
(* evaluation of document.documentElement.outerHTML, "source" for          *)
(* page.content().  process.exit(0) ends every request under way.          *)
(***************************************************************************)
EXTENDS Integers, Sequences

\* ------------------------------------------------------------------ bounds
MaxScrollCount == 2
MaxHeight == 2
PollLatency == 300
WaitStep == 350

\* ------------------------------------------------- constants of the source
PAGE_STABILIZATION == 1000
SCROLL_COMPLETION == 500
CONTENT_CHECK_INTERVAL == 500
ADDITIONAL_CONTENT_WAIT == 1000
FINAL_RENDER_WAIT == 1000
INITIAL_WAIT == 3000
SCROLL_COUNT == 0
SCROLL_WAIT == 3000

PAGE_DETACHMENT_KEYWORDS == { <<"detached">>, <<"closed">>, <<"Target", "closed">> }

\* ------------------------------------------------------------ the requests
Req == {1, 2}
NULL == 0

\* An optional field is <<>> when omitted and <<v>> when given.
Omitted == << >>
Given(v) == << v >>

Urls == { Omitted, Given(""), Given("https://example.com") }
InitialWaitTimes == { Omitted, Given(0), Given(WaitStep) }
ScrollCounts == { Omitted } \cup { Given(n) : n \in 0..MaxScrollCount }
ScrollWaitTimes == { Omitted, Given(0), Given(WaitStep), Given(2 * WaitStep) }

FetchWebContentArgs ==
    [ url : Urls, initialWaitTime : InitialWaitTimes,
      scrollCount : ScrollCounts, scrollWaitTime : ScrollWaitTimes ]

\* What the remote browser can answer.
Heights == 1..MaxHeight
RemoteErrors == { <<"Target", "closed">>, <<"frame", "detached">>, <<"timeout">> }
Latencies == { 0, PollLatency }
NoError == << >>

VARIABLES
    browser,        \* this.browser: NULL or the id of the connected session
    established,    \* number of sessions puppeteer.connect has established
    signal,         \* SIGINT handling: "none", "disconnecting", "exited"
    args,           \* the arguments of each request
    pc,             \* the await each request is suspended at
    opening,        \* the session browser.newPage() was called on
    page,           \* fetchWebContent's local `page`: NULL or the session it is on
    pageClosed,     \* page.isClosed()
    i,              \* performScrolling's loop index
    previousHeight, \* performScrolling's previousHeight
    actualHeight,   \* the document's height when previousHeight was read
    elapsed,        \* Date.now() - startTime in waitForNewContent
    pollStart,      \* value of elapsed when the latest height poll was issued
    currentHeight,  \* waitForNewContent's currentHeight
    caught,         \* the error the latest step of the request observed, and where
    primaryError,   \* extractPageContent's `error` while the fallback runs
    outcome,        \* what the request returns or throws
    closeCalls,     \* number of page.close() calls issued for the request
    connectCalls,   \* number of puppeteer.connect() calls issued for the request
    slept,          \* total duration of the sleep() calls the request completed
    loopExit,       \* how performScrolling's loop was left: "" while it was not
    polls           \* number of height polls waitForNewContent has issued

vars == << browser, established, signal, args, pc, opening, page, pageClosed, i,
           previousHeight, actualHeight, elapsed, pollStart, currentHeight,
           caught, primaryError, outcome, closeCalls, connectCalls, slept,
           loopExit, polls >>

\* ------------------------------------------------------- pure helper code
\* Mutant: an omitted field counts as 0.
DefaultZero(opt, d) == IF opt = Omitted THEN 0 ELSE opt[1]

\* A destructuring default (fetchWebContent) and a zod .default().
Default(opt, d) == IF opt = Omitted THEN d ELSE opt[1]

initialWaitTime(r) == Default(args[r].initialWaitTime, INITIAL_WAIT)
scrollCount(r) == Default(args[r].scrollCount, SCROLL_COUNT)
scrollWaitTime(r) == Default(args[r].scrollWaitTime, SCROLL_WAIT)
url(r) == Default(args[r].url, "")

\* String.prototype.includes on word sequences.
Includes(message, keyword) ==
    \E k \in 1..(Len(message) - Len(keyword) + 1) :
        SubSeq(message, k, k + Len(keyword) - 1) = keyword

\* Mutant: no message is taken for a detachment.
isPageDetachmentErrorNever(message) == FALSE

isPageDetachmentError(message) ==
    \E keyword \in PAGE_DETACHMENT_KEYWORDS : Includes(message, keyword)

\* formatError of an Error: its message followed by its stack.
formatError(message) == message \o << "\n", "stack" >>

\* Mutant: only an absent url is rejected, an empty one is not.
UrlUndefined(u) == u = Omitted

\* `!args.url` in handleWebContentRequest.
UrlMissing(u) == u = Omitted \/ u = Given("")

\* Mutant: a request never connects.
MustConnectNever(b) == FALSE

\* Mutant: a request connects whatever this.browser holds.
MustConnectAlways(b) == TRUE

\* `if (this.browser) return;` in ensureBrowserConnection.
MustConnect(b) == b = NULL

\* closePage(page): the number of page.close() calls it issues.
closePage(p) == IF p = NULL THEN 0 ELSE 1

\* Mutant: an unchanged height counts as new content.
NewContentDetectedOnEqual(current, previous) == current >= previous

\* `currentHeight > previousHeight` in waitForNewContent.
NewContentDetected(current, previous) == current > previous

\* Mutant: the wait gives up one check interval early.
StillWaitingShort(t, waitTime) == t < waitTime - 500

\* Mutant: the wait goes on for one more check interval.
StillWaitingOneMore(t, waitTime) == t < waitTime + 500

\* `Date.now() - startTime < scrollWaitTime` in waitForNewContent.
StillWaiting(t, waitTime) == t < waitTime

\* Mutant: the final wait does not look at scrollCount.
FinalWaitNeededAnyCount(count, waitTime) == waitTime > 0

\* `scrollCount > 0 && scrollWaitTime > 0` in waitForNetworkAndRendering.
FinalWaitNeeded(count, waitTime) == count > 0 /\ waitTime > 0

\* What a request returns or throws.
NoOutcome == [ kind |-> "none", code |-> "", stage |-> "", text |-> << >> ]
Returned(content) ==
    [ kind |-> "content", code |-> "", stage |-> "", text |-> << content >> ]
InvalidParams ==
    [ kind |-> "error", code |-> "InvalidParams", stage |-> "params",
      text |-> << "URL is required" >> ]
\* The McpError handleWebContentRequest makes of an error fetchWebContent threw.
InternalError(stage, message) ==
    [ kind |-> "error", code |-> "InternalError", stage |-> stage,
      text |-> << "Failed to fetch web content:" >> \o formatError(message) ]

ConnectionFailed(e) == << "Failed to connect to browserless.io:" >> \o formatError(e)
BrowserNotConnected == << "Browser not connected" >>
\* Mutant: the message does not name the url.
LoadFailedWithoutUrl(u, e) == << "Failed to load URL", ":" >> \o formatError(e)
LoadFailed(u, e) == << "Failed to load URL", u, ":" >> \o formatError(e)
PageWasClosed == << "Page was closed before content extraction" >>
\* Mutant: the message carries the fallback's failure.
ExtractionFailedWithFallback(primary, fallback) ==
    << "Failed to extract page content:" >> \o (fallback \o << "\n", "stack" >>)
ExtractionFailed(primary, fallback) ==
    << "Failed to extract page content:" >> \o formatError(primary)

\* The error a step observed: the await it came from and its message.
Nothing == [ at |-> "", message |-> NoError ]
Caught(at, message) == [ at |-> at, message |-> message ]

\* What a call on the page of request r can answer: NoError for success, or
\* an error.  A call on a closed page never succeeds.
PageAnswers(r) == IF pageClosed[r] THEN RemoteErrors ELSE { NoError } \cup RemoteErrors

\* Mutant: waitForNetworkAndRendering without its final wait.
AfterScrollingNoSettle(r) == "netIdle"

\* waitForNetworkAndRendering up to its first await.
AfterScrolling(r) ==
    IF FinalWaitNeeded(scrollCount(r), scrollWaitTime(r)) THEN "settle" ELSE "netIdle"

\* The head of performScrolling's for loop with index idx, up to the next await.
NextIteration(r, idx) ==
    IF idx < scrollCount(r) /\ ~pageClosed[r] THEN "getHeight" ELSE AfterScrolling(r)

\* How the head of performScrolling's for loop with index idx leaves the loop:
\* "" if it does not, "closed" by the break on page.isClosed(), "complete"
\* by the loop condition.
LoopLeft(r, idx) ==
    IF idx >= scrollCount(r) THEN "complete"
    ELSE IF pageClosed[r] THEN "closed" ELSE ""

\* Mutant: the initial wait always lasts the default time.
SleepTimeDefaultInitial(r, at) ==
    CASE at = "stabilize" -> PAGE_STABILIZATION
      [] at = "initialWait" -> INITIAL_WAIT
      [] at = "scrollSleep" -> SCROLL_COMPLETION
      [] at = "pollSleep" -> CONTENT_CHECK_INTERVAL
      [] at = "additional" -> ADDITIONAL_CONTENT_WAIT
      [] at = "settle" -> scrollWaitTime(r)
      [] at = "finalRender" -> FINAL_RENDER_WAIT
      [] OTHER -> 0

\* The sleep(ms) a request is suspended in at `at`: its duration.
SleepTime(r, at) ==
    CASE at = "stabilize" -> PAGE_STABILIZATION
      [] at = "initialWait" -> initialWaitTime(r)
      [] at = "scrollSleep" -> SCROLL_COMPLETION
      [] at = "pollSleep" -> CONTENT_CHECK_INTERVAL
      [] at = "additional" -> ADDITIONAL_CONTENT_WAIT
      [] at = "settle" -> scrollWaitTime(r)
      [] at = "finalRender" -> FINAL_RENDER_WAIT
      [] OTHER -> 0
sleeping(r) == SleepTime(r, pc[r])

Running == signal # "exited"

Put(f, r, v) == [ f EXCEPT ![r] = v ]

\* A sleep() of the request ends.
Slept(r) == slept' = Put(slept, r, slept[r] + sleeping(r))

\* The scratch values of waitForNewContent and of one loop iteration, which
\* go out of scope when the function returns.
NoTimer(r) ==
    /\ elapsed' = Put(elapsed, r, 0)
    /\ pollStart' = Put(pollStart, r, 0)
    /\ currentHeight' = Put(currentHeight, r, 0)
    /\ polls' = Put(polls, r, 0)
NoHeights(r) ==
    /\ previousHeight' = Put(previousHeight, r, 0)
    /\ actualHeight' = Put(actualHeight, r, 0)

\* Mutant: a catch block that rethrows without closing the page.
ThrowWithoutClose(r, stage, message) ==
    /\ outcome' = Put(outcome, r, InternalError(stage, message))
    /\ pc' = Put(pc, r, "done")
    /\ UNCHANGED closeCalls

\* fetchWebContent's catch block: closePage(page), then rethrow; and what
\* handleWebContentRequest makes of the error.
Throw(r, stage, message) ==
    /\ outcome' = Put(outcome, r, InternalError(stage, message))
    /\ closeCalls' = Put(closeCalls, r, closeCalls[r] + closePage(page[r]))
    /\ pc' = Put(pc, r, IF closePage(page[r]) > 0 THEN "close" ELSE "done")

\* Mutant: content returned without closing the page.
ReturnWithoutClose(r, content) ==
    /\ outcome' = Put(outcome, r, Returned(content))
    /\ pc' = Put(pc, r, "done")
    /\ UNCHANGED closeCalls

\* The end of fetchWebContent's try block: closePage(page), return content.
Return(r, content) ==
    /\ outcome' = Put(outcome, r, Returned(content))
    /\ closeCalls' = Put(closeCalls, r, closeCalls[r] + closePage(page[r]))
    /\ pc' = Put(pc, r, IF closePage(page[r]) > 0 THEN "close" ELSE "done")

\* ----------------------------------------------------------------- Init
\* A plain fetch, and a request without url.
PlainArgs ==
    [ url |-> Given("https://example.com"), initialWaitTime |-> Given(0),
      scrollCount |-> Omitted, scrollWaitTime |-> Omitted ]
NoUrlArgs ==
    [ url |-> Omitted, initialWaitTime |-> Omitted,
      scrollCount |-> Omitted, scrollWaitTime |-> Omitted ]

\* The workloads: any first request next to a second one that is rejected,
\* and two plain fetches, which overlap in every way.
Workloads ==
    { a \in [ Req -> FetchWebContentArgs ] : a[2] = NoUrlArgs }
    \cup { a \in [ Req -> FetchWebContentArgs ] :
              a[1] = PlainArgs /\ a[2] = PlainArgs }

Init ==
    /\ browser = NULL
    /\ established = 0
    /\ signal = "none"
    /\ args \in Workloads
    /\ pc = [ r \in Req |-> "idle" ]
    /\ opening = [ r \in Req |-> NULL ]
    /\ page = [ r \in Req |-> NULL ]
    /\ pageClosed = [ r \in Req |-> FALSE ]
    /\ i = [ r \in Req |-> 0 ]
    /\ previousHeight = [ r \in Req |-> 0 ]
    /\ actualHeight = [ r \in Req |-> 0 ]
    /\ elapsed = [ r \in Req |-> 0 ]
    /\ pollStart = [ r \in Req |-> 0 ]
    /\ currentHeight = [ r \in Req |-> 0 ]
    /\ caught = [ r \in Req |-> Nothing ]
    /\ primaryError = [ r \in Req |-> NoError ]
    /\ outcome = [ r \in Req |-> NoOutcome ]
    /\ closeCalls = [ r \in Req |-> 0 ]
    /\ connectCalls = [ r \in Req |-> 0 ]
    /\ slept = [ r \in Req |-> 0 ]
    /\ loopExit = [ r \in Req |-> "" ]
    /\ polls = [ r \in Req |-> 0 ]

\* -------------------------------------------------------------- actions
\* handleWebContentRequest up to the first await of ensureBrowserConnection.
HandleWebContentRequest(r) ==
    /\ Running /\ pc[r] = "idle"
    /\ IF UrlMissing(args[r].url)
       THEN /\ outcome' = Put(outcome, r, InvalidParams)
            /\ pc' = Put(pc, r, "done")
            /\ UNCHANGED connectCalls
       ELSE /\ IF MustConnect(browser)
               THEN /\ pc' = Put(pc, r, "connect")
                    /\ connectCalls' = Put(connectCalls, r, connectCalls[r] + 1)
               ELSE /\ pc' = Put(pc, r, "createPage")
                    /\ UNCHANGED connectCalls
            /\ UNCHANGED outcome
    /\ UNCHANGED << browser, established, signal, args, opening, page, pageClosed,
                    i, previousHeight, actualHeight, elapsed, pollStart, currentHeight, caught,
                    primaryError, closeCalls >>
    /\ UNCHANGED << slept, loopExit, polls >>

\* puppeteer.connect() returns or throws (ensureBrowserConnection).
ConnectReturns(r) ==
    /\ Running /\ pc[r] = "connect"
    /\ \/ /\ established' = established + 1
          /\ browser' = established + 1
          /\ pc' = Put(pc, r, "createPage")
          /\ caught' = Put(caught, r, Nothing)
          /\ UNCHANGED << outcome, closeCalls >>
       \/ \E e \in RemoteErrors :
             /\ Throw(r, "connect", ConnectionFailed(e))
             /\ caught' = Put(caught, r, Caught("connect", e))
             /\ UNCHANGED << browser, established >>
    /\ UNCHANGED << signal, args, opening, page, pageClosed, i, previousHeight,
                    actualHeight, elapsed, pollStart, currentHeight, primaryError, connectCalls >>
    /\ UNCHANGED << slept, loopExit, polls >>

\* createPage up to browser.newPage().
CreatePage(r) ==
    /\ Running /\ pc[r] = "createPage"
    /\ IF browser = NULL
       THEN /\ Throw(r, "open", BrowserNotConnected)
            /\ UNCHANGED opening
       ELSE /\ opening' = Put(opening, r, browser)
            /\ pc' = Put(pc, r, "newPage")
            /\ UNCHANGED << outcome, closeCalls >>
    /\ caught' = Put(caught, r, Nothing)
    /\ UNCHANGED << browser, established, signal, args, page, pageClosed, i,
                    previousHeight, actualHeight, elapsed, pollStart, currentHeight,
                    primaryError, connectCalls >>
    /\ UNCHANGED << slept, loopExit, polls >>

\* browser.newPage() returns or throws; on success page.goto() is issued.
NewPageReturns(r) ==
    /\ Running /\ pc[r] = "newPage"
    /\ \/ /\ page' = Put(page, r, opening[r])
          /\ pc' = Put(pc, r, "goto")
          /\ caught' = Put(caught, r, Nothing)
          /\ UNCHANGED << outcome, closeCalls >>
       \/ \E e \in RemoteErrors :
             /\ Throw(r, "open", e)
             /\ caught' = Put(caught, r, Caught("newPage", e))
             /\ UNCHANGED page
    /\ UNCHANGED << browser, established, signal, args, opening, pageClosed, i,
                    previousHeight, actualHeight, elapsed, pollStart, currentHeight,
                    primaryError, connectCalls >>
    /\ UNCHANGED << slept, loopExit, polls >>

\* page.goto() returns or throws (navigateToUrl).
GotoReturns(r) ==
    /\ Running /\ pc[r] = "goto"
    /\ \E e \in PageAnswers(r) :
          IF e = NoError
          THEN /\ pc' = Put(pc, r, "stabilize")
               /\ caught' = Put(caught, r, Nothing)
               /\ UNCHANGED << outcome, closeCalls >>
          ELSE /\ Throw(r, "navigate", LoadFailed(url(r), e))
               /\ caught' = Put(caught, r, Caught("goto", e))
    /\ UNCHANGED << browser, established, signal, args, opening, page, pageClosed,
                    i, previousHeight, actualHeight, elapsed, pollStart, currentHeight,
                    primaryError, connectCalls >>
    /\ UNCHANGED << slept, loopExit, polls >>

\* sleep(PAGE_STABILIZATION) ends; waitForInitialLoad starts.
Stabilized(r) ==
    /\ Running /\ pc[r] = "stabilize"
    /\ pc' = Put(pc, r, IF initialWaitTime(r) > 0 THEN "initialWait"
                        ELSE NextIteration(r, 0))
    /\ UNCHANGED << browser, established, signal, args, opening, page, pageClosed,
                    i, previousHeight, actualHeight, elapsed, pollStart, currentHeight, caught,
                    primaryError, outcome, closeCalls, connectCalls >>
    /\ loopExit' = Put(loopExit, r, IF initialWaitTime(r) > 0 THEN ""
                                    ELSE LoopLeft(r, 0))
    /\ Slept(r)
    /\ UNCHANGED polls

\* sleep(initialWaitTime) ends; performScrolling starts.
InitialWaitOver(r) ==
    /\ Running /\ pc[r] = "initialWait"
    /\ pc' = Put(pc, r, NextIteration(r, 0))
    /\ UNCHANGED << browser, established, signal, args, opening, page, pageClosed,
                    i, previousHeight, actualHeight, elapsed, pollStart, currentHeight, caught,
                    primaryError, outcome, closeCalls, connectCalls >>
    /\ loopExit' = Put(loopExit, r, LoopLeft(r, 0))
    /\ Slept(r)
    /\ UNCHANGED polls

\* Mutant: a height read that failed counts as the height the document has.
GetScrollHeightReturnsActual(r) ==
    /\ Running /\ pc[r] = "getHeight"
    /\ \E h \in Heights, e \in PageAnswers(r) :
          /\ actualHeight' = Put(actualHeight, r, h)
          /\ previousHeight' = Put(previousHeight, r, h)
          /\ caught' = Put(caught, r, IF e = NoError THEN Nothing
                                      ELSE Caught("getHeight", e))
    /\ pc' = Put(pc, r, "scroll")
    /\ NoTimer(r)
    /\ UNCHANGED << browser, established, signal, args, opening, page, pageClosed,
                    i, primaryError, outcome, closeCalls, connectCalls >>
    /\ UNCHANGED << slept, loopExit >>

\* getScrollHeight's page.evaluate() returns or throws; scrollToBottom's
\* page.evaluate() is issued.  h is the height the document has.
GetScrollHeightReturns(r) ==
    /\ Running /\ pc[r] = "getHeight"
    /\ \E h \in Heights, e \in PageAnswers(r) :
          /\ actualHeight' = Put(actualHeight, r, h)
          /\ IF e = NoError
             THEN /\ previousHeight' = Put(previousHeight, r, h)
                  /\ caught' = Put(caught, r, Nothing)
             ELSE /\ previousHeight' = Put(previousHeight, r, 0)
                  /\ caught' = Put(caught, r, Caught("getHeight", e))
    /\ pc' = Put(pc, r, "scroll")
    /\ NoTimer(r)
    /\ UNCHANGED << browser, established, signal, args, opening, page, pageClosed,
                    i, primaryError, outcome, closeCalls, connectCalls >>
    /\ UNCHANGED << slept, loopExit >>

\* scrollToBottom's page.evaluate() returns or throws; on an error
\* page.keyboard.press('End') is issued, else sleep(SCROLL_COMPLETION).
ScrollToBottomReturns(r) ==
    /\ Running /\ pc[r] = "scroll"
    /\ \E e \in PageAnswers(r) :
          IF e = NoError
          THEN /\ pc' = Put(pc, r, "scrollSleep")
               /\ caught' = Put(caught, r, Nothing)
          ELSE /\ pc' = Put(pc, r, "pressEnd")
               /\ caught' = Put(caught, r, Caught("scroll", e))
    /\ UNCHANGED << browser, established, signal, args, opening, page, pageClosed,
                    i, previousHeight, actualHeight, elapsed, pollStart, currentHeight,
                    primaryError, outcome, closeCalls, connectCalls >>
    /\ UNCHANGED << slept, loopExit, polls >>

\* Mutant: a catch block that leaves the loop on any error.
ScrollErrorTargetAlwaysLeaves(r, idx, message) ==
    << AfterScrolling(r), idx, "detached" >>

\* What performScrolling's catch block does with an error of iteration idx:
\* the await the request goes to, the loop index it has there, and how the
\* loop was left if it was.
ScrollErrorTarget(r, idx, message) ==
    IF isPageDetachmentError(message)
    THEN << AfterScrolling(r), idx, "detached" >>
    ELSE << NextIteration(r, idx + 1), idx + 1, LoopLeft(r, idx + 1) >>

\* page.keyboard.press('End') returns or throws; an error reaches the
\* catch block of performScrolling.
PressEndReturns(r) ==
    /\ Running /\ pc[r] = "pressEnd"
    /\ \E e \in PageAnswers(r) :
          IF e = NoError
          THEN /\ pc' = Put(pc, r, "scrollSleep")
               /\ caught' = Put(caught, r, Nothing)
               /\ UNCHANGED << i, previousHeight, actualHeight, loopExit >>
          ELSE /\ pc' = Put(pc, r, ScrollErrorTarget(r, i[r], e)[1])
               /\ i' = Put(i, r, ScrollErrorTarget(r, i[r], e)[2])
               /\ loopExit' = Put(loopExit, r, ScrollErrorTarget(r, i[r], e)[3])
               /\ caught' = Put(caught, r, Caught("pressEnd", e))
               /\ NoHeights(r)
    /\ UNCHANGED << browser, established, signal, args, opening, page, pageClosed,
                    elapsed, pollStart, currentHeight, primaryError, outcome, closeCalls,
                    connectCalls >>
    /\ UNCHANGED << slept, polls >>

\* sleep(SCROLL_COMPLETION) ends; waitForNewContent starts and, if it is to
\* wait at all, issues its first height poll.
ScrollCompleted(r) ==
    /\ Running /\ pc[r] = "scrollSleep"
    /\ IF scrollWaitTime(r) <= 0
       THEN /\ pc' = Put(pc, r, NextIteration(r, i[r] + 1))
            /\ i' = Put(i, r, i[r] + 1)
            /\ loopExit' = Put(loopExit, r, LoopLeft(r, i[r] + 1))
            /\ polls' = Put(polls, r, 0)
            /\ NoHeights(r)
       ELSE /\ pc' = Put(pc, r, "poll")
            /\ polls' = Put(polls, r, 1)
            /\ UNCHANGED << i, previousHeight, actualHeight, loopExit >>
    /\ elapsed' = Put(elapsed, r, 0)
    /\ pollStart' = Put(pollStart, r, 0)
    /\ currentHeight' = Put(currentHeight, r, 0)
    /\ Slept(r)
    /\ caught' = Put(caught, r, Nothing)
    /\ UNCHANGED << browser, established, signal, args, opening, page, pageClosed,
                    primaryError, outcome, closeCalls, connectCalls >>

\* A height poll of waitForNewContent returns or throws, d ms after it was
\* issued.
PollReturns(r) ==
    /\ Running /\ pc[r] = "poll"
    /\ \E d \in Latencies, h \in Heights, e \in PageAnswers(r) :
          /\ elapsed' = Put(elapsed, r, elapsed[r] + d)
          /\ IF e = NoError
             THEN /\ currentHeight' = Put(currentHeight, r, h)
                  /\ pc' = Put(pc, r, IF NewContentDetected(h, previousHeight[r])
                                      THEN "additional" ELSE "pollSleep")
                  /\ caught' = Put(caught, r, Nothing)
                  /\ UNCHANGED << i, previousHeight, actualHeight, loopExit >>
             ELSE /\ currentHeight' = Put(currentHeight, r, 0)
                  /\ pc' = Put(pc, r, NextIteration(r, i[r] + 1))
                  /\ i' = Put(i, r, i[r] + 1)
                  /\ loopExit' = Put(loopExit, r, LoopLeft(r, i[r] + 1))
                  /\ caught' = Put(caught, r, Caught("poll", e))
                  /\ NoHeights(r)
    /\ UNCHANGED << browser, established, signal, args, opening, page, pageClosed,
                    pollStart, primaryError, outcome, closeCalls, connectCalls >>
    /\ UNCHANGED << slept, polls >>

\* sleep(ADDITIONAL_CONTENT_WAIT) ends; waitForNewContent returns.
AdditionalWaitOver(r) ==
    /\ Running /\ pc[r] = "additional"
    /\ pc' = Put(pc, r, NextIteration(r, i[r] + 1))
    /\ i' = Put(i, r, i[r] + 1)
    /\ NoHeights(r)
    /\ NoTimer(r)
    /\ UNCHANGED << browser, established, signal, args, opening, page, pageClosed,
                    caught, primaryError, outcome, closeCalls, connectCalls >>
    /\ loopExit' = Put(loopExit, r, LoopLeft(r, i[r] + 1))
    /\ Slept(r)

\* sleep(CONTENT_CHECK_INTERVAL) ends; the while condition of
\* waitForNewContent is evaluated, and the next poll issued or the wait left.
CheckIntervalOver(r) ==
    /\ Running /\ pc[r] = "pollSleep"
    /\ elapsed' = Put(elapsed, r, elapsed[r] + sleeping(r))
    /\ IF StillWaiting(elapsed[r] + sleeping(r), scrollWaitTime(r))
       THEN /\ pc' = Put(pc, r, "poll")
            /\ pollStart' = Put(pollStart, r, elapsed[r] + sleeping(r))
            /\ polls' = Put(polls, r, polls[r] + 1)
            /\ UNCHANGED << i, previousHeight, actualHeight, loopExit >>
       ELSE /\ pc' = Put(pc, r, NextIteration(r, i[r] + 1))
            /\ i' = Put(i, r, i[r] + 1)
            /\ loopExit' = Put(loopExit, r, LoopLeft(r, i[r] + 1))
            /\ NoHeights(r)
            /\ UNCHANGED << pollStart, polls >>
    /\ UNCHANGED << browser, established, signal, args, opening, page, pageClosed,
                    currentHeight, caught, primaryError, outcome, closeCalls,
                    connectCalls >>
    /\ Slept(r)

\* sleep(scrollWaitTime) of waitForNetworkAndRendering ends;
\* page.waitForNetworkIdle() is issued.
FinalWaitOver(r) ==
    /\ Running /\ pc[r] = "settle"
    /\ pc' = Put(pc, r, "netIdle")
    /\ caught' = Put(caught, r, Nothing)
    /\ NoTimer(r)
    /\ UNCHANGED << browser, established, signal, args, opening, page, pageClosed,
                    i, previousHeight, actualHeight, primaryError, outcome,
                    closeCalls, connectCalls >>
    /\ Slept(r)
    /\ UNCHANGED loopExit

\* Mutant: a network-idle timeout that is not caught.
NetworkIdleTimeoutThrown(r, e) == Throw(r, "netIdle", e)

\* The catch block of waitForNetworkAndRendering: continue anyway.
NetworkIdleTimeout(r, e) ==
    /\ pc' = Put(pc, r, "finalRender")
    /\ UNCHANGED << outcome, closeCalls >>

\* page.waitForNetworkIdle() returns or throws; sleep(FINAL_RENDER_WAIT).
NetworkIdleReturns(r) ==
    /\ Running /\ pc[r] = "netIdle"
    /\ \E e \in PageAnswers(r) :
          IF e = NoError
          THEN /\ pc' = Put(pc, r, "finalRender")
               /\ caught' = Put(caught, r, Nothing)
               /\ UNCHANGED << outcome, closeCalls >>
          ELSE /\ NetworkIdleTimeout(r, e)
               /\ caught' = Put(caught, r, Caught("netIdle", e))
    /\ NoTimer(r)
    /\ UNCHANGED << browser, established, signal, args, opening, page, pageClosed,
                    i, previousHeight, actualHeight, primaryError, connectCalls >>
    /\ UNCHANGED << slept, loopExit >>

\* Mutant: extractPageContent without its page.isClosed() test.
FinalRenderOverUnchecked(r) ==
    /\ Running /\ pc[r] = "finalRender"
    /\ pc' = Put(pc, r, "evalOuter")
    /\ caught' = Put(caught, r, Nothing)
    /\ Slept(r)
    /\ UNCHANGED << browser, established, signal, args, opening, page, pageClosed,
                    i, previousHeight, actualHeight, elapsed, pollStart, currentHeight,
                    primaryError, outcome, closeCalls, connectCalls, loopExit, polls >>

\* sleep(FINAL_RENDER_WAIT) ends; extractPageContent up to its evaluate().
FinalRenderOver(r) ==
    /\ Running /\ pc[r] = "finalRender"
    /\ IF pageClosed[r]
       THEN Throw(r, "extract", PageWasClosed)
       ELSE /\ pc' = Put(pc, r, "evalOuter")
            /\ UNCHANGED << outcome, closeCalls >>
    /\ caught' = Put(caught, r, Nothing)
    /\ UNCHANGED << browser, established, signal, args, opening, page, pageClosed,
                    i, previousHeight, actualHeight, elapsed, pollStart, currentHeight,
                    primaryError, connectCalls >>
    /\ Slept(r)
    /\ UNCHANGED << loopExit, polls >>

\* The evaluate() of the root element's outerHTML returns or throws; on an
\* error page.content() is issued.
EvaluateOuterHTMLReturns(r) ==
    /\ Running /\ pc[r] = "evalOuter"
    /\ \E e \in PageAnswers(r) :
          IF e = NoError
          THEN /\ Return(r, "outerHTML")
               /\ caught' = Put(caught, r, Nothing)
               /\ UNCHANGED primaryError
          ELSE /\ pc' = Put(pc, r, "fallback")
               /\ primaryError' = Put(primaryError, r, e)
               /\ caught' = Put(caught, r, Caught("evalOuter", e))
               /\ UNCHANGED << outcome, closeCalls >>
    /\ UNCHANGED << browser, established, signal, args, opening, page, pageClosed,
                    i, previousHeight, actualHeight, elapsed, pollStart, currentHeight,
                    connectCalls >>
    /\ UNCHANGED << slept, loopExit, polls >>

\* Mutant: the fallback's content is dropped and the request fails.
FallbackDropped(r, content) ==
    Throw(r, "extract", << "Failed to extract page content:" >>)

\* `return await page.content()`: the fallback's content is the result.
FallbackSucceeded(r, content) == Return(r, content)

\* page.content() returns or throws.
PageContentReturns(r) ==
    /\ Running /\ pc[r] = "fallback"
    /\ \E e \in PageAnswers(r) :
          IF e = NoError
          THEN /\ FallbackSucceeded(r, "source")
               /\ caught' = Put(caught, r, Nothing)
          ELSE /\ Throw(r, "extract", ExtractionFailed(primaryError[r], e))
               /\ caught' = Put(caught, r, Caught("fallback", e))
    /\ UNCHANGED << browser, established, signal, args, opening, page, pageClosed,
                    i, previousHeight, actualHeight, elapsed, pollStart, currentHeight,
                    primaryError, connectCalls >>
    /\ UNCHANGED << slept, loopExit, polls >>

\* page.close() returns or throws (closePage); the request completes.
ClosePageReturns(r) ==
    /\ Running /\ pc[r] = "close"
    /\ \/ /\ pageClosed' = Put(pageClosed, r, TRUE)
          /\ caught' = Put(caught, r, Nothing)
       \/ \E e \in RemoteErrors :
             /\ caught' = Put(caught, r, Caught("close", e))
             /\ UNCHANGED pageClosed
    /\ pc' = Put(pc, r, "done")
    /\ UNCHANGED << browser, established, signal, args, opening, page, i,
                    previousHeight, actualHeight, elapsed, pollStart, currentHeight,
                    primaryError, outcome, closeCalls, connectCalls >>
    /\ UNCHANGED << slept, loopExit, polls >>

\* The remote browser closes the page of a request under way.
PageGoesAway(r) ==
    /\ Running /\ page[r] # NULL /\ ~pageClosed[r] /\ pc[r] # "done"
    /\ pageClosed' = Put(pageClosed, r, TRUE)
    /\ UNCHANGED << browser, established, signal, args, pc, opening, page, i,
                    previousHeight, actualHeight, elapsed, pollStart, currentHeight, caught,
                    primaryError, outcome, closeCalls, connectCalls >>
    /\ UNCHANGED << slept, loopExit, polls >>

\* process.exit(0): every request under way is abandoned, and what the
\* process held of it is gone.
Exit ==
    /\ pc' = [ r \in Req |-> "exited" ]
    /\ opening' = [ r \in Req |-> NULL ]
    /\ page' = [ r \in Req |-> NULL ]
    /\ pageClosed' = [ r \in Req |-> FALSE ]
    /\ i' = [ r \in Req |-> 0 ]
    /\ previousHeight' = [ r \in Req |-> 0 ]
    /\ actualHeight' = [ r \in Req |-> 0 ]
    /\ elapsed' = [ r \in Req |-> 0 ]
    /\ pollStart' = [ r \in Req |-> 0 ]
    /\ currentHeight' = [ r \in Req |-> 0 ]
    /\ caught' = [ r \in Req |-> Nothing ]
    /\ primaryError' = [ r \in Req |-> NoError ]
    /\ outcome' = [ r \in Req |-> NoOutcome ]
    /\ closeCalls' = [ r \in Req |-> 0 ]
    /\ connectCalls' = [ r \in Req |-> 0 ]
    /\ slept' = [ r \in Req |-> 0 ]
    /\ loopExit' = [ r \in Req |-> "" ]
    /\ polls' = [ r \in Req |-> 0 ]

\* SIGINT: cleanup up to browser.disconnect(), or process.exit(0) at once.
Sigint ==
    /\ signal = "none"
    /\ IF browser # NULL
       THEN /\ signal' = "disconnecting"
            /\ UNCHANGED << pc, opening, page, pageClosed, i, previousHeight,
                            actualHeight, elapsed, pollStart, currentHeight, caught,
                            primaryError, outcome, closeCalls, connectCalls,
                            slept, loopExit, polls >>
       ELSE /\ signal' = "exited"
            /\ Exit
    /\ UNCHANGED << browser, established, args >>

\* browser.disconnect() returns or throws; this.browser = null; process.exit(0).
DisconnectReturns ==
    /\ signal = "disconnecting"
    /\ browser' = NULL
    /\ signal' = "exited"
    /\ Exit
    /\ UNCHANGED << established, args >>

Next ==
    \/ \E r \in Req :
          \/ HandleWebContentRequest(r)
          \/ ConnectReturns(r)
          \/ CreatePage(r)
          \/ NewPageReturns(r)
          \/ GotoReturns(r)
          \/ Stabilized(r)
          \/ InitialWaitOver(r)
          \/ GetScrollHeightReturns(r)
          \/ ScrollToBottomReturns(r)
          \/ PressEndReturns(r)
          \/ ScrollCompleted(r)
          \/ PollReturns(r)
          \/ AdditionalWaitOver(r)
          \/ CheckIntervalOver(r)
          \/ FinalWaitOver(r)
          \/ NetworkIdleReturns(r)
          \/ FinalRenderOver(r)
          \/ EvaluateOuterHTMLReturns(r)
          \/ PageContentReturns(r)
          \/ ClosePageReturns(r)
          \/ PageGoesAway(r)
    \/ Sigint
    \/ DisconnectReturns

Spec == Init /\ [][Next]_vars

\* A step of request r once it is under way: the call it awaits returns or
\* throws, or the timer it sleeps on fires.
RequestStep(r) ==
    \/ ConnectReturns(r)
    \/ CreatePage(r)
    \/ NewPageReturns(r)
    \/ GotoReturns(r)
    \/ Stabilized(r)
    \/ InitialWaitOver(r)
    \/ GetScrollHeightReturns(r)
    \/ ScrollToBottomReturns(r)
    \/ PressEndReturns(r)
    \/ ScrollCompleted(r)
    \/ PollReturns(r)
    \/ AdditionalWaitOver(r)
    \/ CheckIntervalOver(r)
    \/ FinalWaitOver(r)
    \/ NetworkIdleReturns(r)
    \/ FinalRenderOver(r)
    \/ EvaluateOuterHTMLReturns(r)
    \/ PageContentReturns(r)
    \/ ClosePageReturns(r)

\* Every call to the remote browser returns or fails in the end, and time
\* advances: a request that can take a step takes one.
FairSpec == Spec /\ \A r \in Req : WF_vars(RequestStep(r))

\* ---------------------------------------------------------------- claims
LoopAwaits == { "getHeight", "scroll", "pressEnd", "scrollSleep", "poll",
                "pollSleep", "additional" }
FatalStages == { "connect", "open", "navigate", "extract" }
Accepted(r) == args[r].url \notin { Omitted, Given("") }
Completed(r) == pc[r] = "done"

\* C1: a request that opened a page issues page.close() on it exactly once
\* by the time it completes, whether it returns content or fails; a request
\* whose page was never opened issues no page.close(); and nothing follows
\* the close but the request's completion.
C1_PageClosedExactlyOnce ==
    \A r \in Req :
        /\ closeCalls[r] <= 1
        /\ page[r] = NULL => closeCalls[r] = 0
        /\ (Completed(r) /\ page[r] # NULL) => closeCalls[r] = 1
        /\ (Completed(r) /\ outcome[r].stage \in { "params", "connect", "open" })
              => closeCalls[r] = 0
        /\ closeCalls[r] = 1 <=> (pc[r] \in { "close", "done" } /\ page[r] # NULL)

\* A request that failed at navigation and closed its page once.
C1_Witness ==
    \E r \in Req :
        /\ Completed(r) /\ outcome[r].stage = "navigate"
        /\ page[r] # NULL /\ closeCalls[r] = 1

\* A detachment error: one whose message holds a detachment keyword.
Detachment(c) ==
    \E keyword \in PAGE_DETACHMENT_KEYWORDS : Includes(c.message, keyword)

\* C2 as claimed, in its weakest reading: after a detachment error at a
\* step of a scroll iteration (the height read, the scroll command, the End
\* key, a height poll) no later iteration is started; the step that ended
\* the iteration leads on to the network-idle wait.
C2_AnyDetachmentStopsLoop ==
    \A r \in Req :
        (caught[r].at \in { "getHeight", "scroll", "pressEnd", "poll" }
            /\ Detachment(caught[r]))
        => /\ pc[r] # "getHeight"
           /\ caught[r].at \in { "pressEnd", "poll" }
                 => pc[r] \in { "settle", "netIdle" }

\* What a step of request r does with an error of a scroll iteration, and
\* where a request that left the scroll loop goes.
C2_Step(r) ==
    /\ (pc[r] = "pressEnd" /\ caught'[r].at = "pressEnd" /\ Detachment(caught'[r]))
          => (pc'[r] \in { "settle", "netIdle" } /\ i'[r] = i[r])
    /\ (pc[r] \in { "settle", "netIdle", "finalRender" } /\ pc'[r] # "exited")
          => /\ pc'[r] \notin LoopAwaits
             /\ i'[r] = i[r]
             /\ outcome'[r].kind = "error" => outcome'[r].stage = "extract"
    /\ pc[r] = "settle" => pc'[r] \in { "settle", "netIdle", "exited" }
    /\ pc[r] = "netIdle" => pc'[r] \in { "netIdle", "finalRender", "exited" }
    /\ (pc[r] = "getHeight" /\ caught'[r].at = "getHeight")
          => (pc'[r] = "scroll" /\ previousHeight'[r] = 0)
    /\ (pc[r] = "scroll" /\ caught'[r].at = "scroll") => pc'[r] = "pressEnd"
    /\ (pc[r] = "poll" /\ caught'[r].at = "poll")
          => (pc'[r] = NextIteration(r, i[r] + 1) /\ i'[r] = i[r] + 1)

\* C2 as amended: a detachment error of the End-key press stops the scroll
\* loop at that iteration; once the loop is left no iteration runs any more
\* and the request goes through the network-idle wait to the extraction
\* stage without failing before it; a detachment error of the height read,
\* the scroll command or a height poll is absorbed where it occurs (height
\* 0, End-key press, detection wait given up) and does not stop the loop.
C2_EndKeyDetachmentStopsLoop == [][\A r \in Req : C2_Step(r)]_vars

\* The loop was stopped by a detachment error of the End-key press with
\* iterations left to run.
C2_Witness ==
    \E r \in Req :
        /\ caught[r].at = "pressEnd" /\ Detachment(caught[r])
        /\ pc[r] \in { "settle", "netIdle" }
        /\ i[r] + 1 < scrollCount(r)

\* C3: under any interleaving of requests at most one session is ever
\* established (puppeteer.connect succeeds at most once), and all pages are
\* opened on that one session.
C3_SingleSession ==
    /\ established <= 1
    /\ \A r, q \in Req : (page[r] # NULL /\ page[q] # NULL) => page[r] = page[q]

\* C4: an accepted request that completes returns content or fails at
\* one of the four fatal stages; no failure is pending from any other step.
\* So a run in which connect, page open, navigation and extraction succeed
\* returns content, whatever the scroll steps, the network-idle wait and
\* page.close() did.
C4_OnlyFatalStagesFail ==
    \A r \in Req :
        Accepted(r) =>
            /\ outcome[r].kind = "error" => outcome[r].stage \in FatalStages
            /\ Completed(r) => outcome[r].kind \in { "content", "error" }
            /\ (outcome[r].kind = "error" /\ caught[r].at # "")
                  => caught[r].at \in { "connect", "newPage", "goto", "fallback",
                                        "close" }

\* A request returned content although its page.close() failed.
C4_Witness ==
    \E r \in Req :
        /\ Completed(r) /\ outcome[r].kind = "content"
        /\ caught[r].at = "close" /\ ~pageClosed[r]

\* How a request enters the extraction and the final render wait.
C5_Step(r) ==
    /\ (pc'[r] \in { "evalOuter", "fallback" } /\ pc[r] \notin { "evalOuter", "fallback" })
          => (pc[r] = "finalRender" /\ sleeping(r) = 1000)
    /\ (outcome'[r].stage = "extract" /\ outcome[r].stage # "extract")
          => pc[r] \in { "finalRender", "fallback" }
    /\ (pc'[r] = "finalRender" /\ pc[r] # "finalRender") => pc[r] = "netIdle"

\* C5: a request with scrollCount = 0 never reads a height, scrolls, presses
\* End, polls or pauses to settle after scrolling; the extraction is entered
\* only from the final render wait of FINAL_RENDER_WAIT ms, and that wait
\* only from the network-idle wait.
C5_NoScrollingWithoutScrollCount ==
    /\ [](\A r \in Req : scrollCount(r) = 0 => pc[r] \notin LoopAwaits \cup { "settle" })
    /\ [][\A r \in Req : scrollCount(r) = 0 => C5_Step(r)]_vars

\* A request without scrolling, though with a scroll wait time, has the
\* network-idle wait and the final render wait behind it and extracts.
C5_Witness ==
    \E r \in Req :
        /\ args[r].scrollCount = Given(0) /\ scrollWaitTime(r) > 0
        /\ initialWaitTime(r) > 0 /\ pc[r] = "evalOuter"

\* What follows a height poll that returned, and the pause after new content.
C6_Step(r) ==
    /\ (pc[r] = "poll" /\ pc'[r] \notin { "poll", "exited" } /\ caught'[r].at # "poll")
          => /\ pollStart[r] < scrollWaitTime(r) /\ scrollWaitTime(r) > 0
             /\ currentHeight'[r] > previousHeight[r] => pc'[r] = "additional"
             /\ currentHeight'[r] <= previousHeight[r] => pc'[r] = "pollSleep"
             /\ i'[r] = i[r]
    /\ (pc[r] = "additional" /\ pc'[r] \notin { "additional", "exited" })
          => /\ pc'[r] = NextIteration(r, i[r] + 1)
             /\ i'[r] = i[r] + 1
             /\ outcome'[r] = outcome[r]

\* C6: while the detection wait runs (scrollWaitTime > 0, the poll issued
\* before scrollWaitTime had elapsed), a poll that reads a height strictly
\* greater than previousHeight ends the wait: the request pauses
\* ADDITIONAL_CONTENT_WAIT = 1000 ms and goes on with the loop without another
\* poll; a poll that reads an equal or smaller height leaves the wait
\* running, with the next check CONTENT_CHECK_INTERVAL later.
C6_StrictGrowthEndsWait ==
    /\ [](\A r \in Req :
             /\ pc[r] = "additional"
                   => (currentHeight[r] > previousHeight[r] /\ sleeping(r) = 1000)
             /\ pc[r] = "pollSleep"
                   => (currentHeight[r] <= previousHeight[r] /\ sleeping(r) = 500))
    /\ [][\A r \in Req : C6_Step(r)]_vars

\* New content was detected by a poll that was not the first of its wait,
\* against a height that was read.
C6_Witness ==
    \E r \in Req :
        /\ pc[r] = "additional" /\ pollStart[r] > 0
        /\ previousHeight[r] > 0 /\ currentHeight[r] > previousHeight[r]

\* The detection wait is left because its time is up: by the check that
\* follows a sleep(CONTENT_CHECK_INTERVAL).
TimeIsUp(r) ==
    pc[r] = "pollSleep" /\ pc'[r] \notin { "pollSleep", "poll", "exited" }

\* C7 as claimed: a detection wait in which no poll reads a greater height
\* ends only once scrollWaitTime has elapsed, and no more than one check
\* interval of 500 ms after that.
C7_EndsWithinOneInterval ==
    [][\A r \in Req :
          TimeIsUp(r) => /\ elapsed'[r] >= scrollWaitTime(r)
                         /\ elapsed'[r] <= scrollWaitTime(r) + 500]_vars

\* What the time check after a sleep(CONTENT_CHECK_INTERVAL) decides.
C7_Step(r) ==
    /\ TimeIsUp(r)
          => /\ elapsed'[r] >= scrollWaitTime(r)
             /\ pollStart[r] < scrollWaitTime(r)
             /\ elapsed'[r] <= pollStart[r] + PollLatency + 500
             /\ pc'[r] = NextIteration(r, i[r] + 1)
             /\ i'[r] = i[r] + 1
             /\ outcome'[r] = outcome[r]
    /\ (pc[r] = "pollSleep" /\ pc'[r] = "poll")
          => /\ elapsed'[r] = elapsed[r] + 500
             /\ elapsed'[r] < scrollWaitTime(r)
             /\ pollStart'[r] = elapsed'[r]

\* C7 as amended: such a wait checks the time after every 500 ms sleep, polls
\* again while less than scrollWaitTime has elapsed, and ends only once
\* scrollWaitTime has elapsed; the last poll was issued before that, so the
\* wait ends no more than that poll's duration plus one check interval
\* later.  It ends without the extra 1000 ms pause and without error, and the
\* loop goes on with the next iteration.
C7_EndsOnceTimeIsUp == [][\A r \in Req : C7_Step(r)]_vars

\* A wait ended by time after more than one poll, none of which failed.
C7_Witness ==
    \E r \in Req :
        /\ pc[r] \in { "getHeight", "settle", "netIdle" }
        /\ caught[r] = Nothing
        /\ pollStart[r] > 0 /\ elapsed[r] >= scrollWaitTime(r)
        /\ scrollWaitTime(r) > 0

\* C8: when the evaluation of the root element's outerHTML failed and
\* page.content() succeeded, the request returns what page.content()
\* returned, without error, and page.close() is issued.
C8_FallbackContentReturned ==
    \A r \in Req :
        /\ (primaryError[r] # NoError /\ pc[r] = "close" /\ caught[r].at # "fallback")
              => (outcome[r] = Returned("source") /\ closeCalls[r] = 1)
        /\ (primaryError[r] # NoError /\ Completed(r) /\ outcome[r].kind = "content")
              => (outcome[r] = Returned("source") /\ closeCalls[r] = 1)

\* The fallback's content was returned and the page is closed.
C8_Witness ==
    \E r \in Req :
        /\ primaryError[r] # NoError /\ Completed(r)
        /\ outcome[r] = Returned("source") /\ pageClosed[r] /\ closeCalls[r] = 1

\* C9: when both the evaluation of outerHTML and page.content() failed, the
\* request fails with the extraction error, whose message holds the detail
\* of the first failure and, unless the two are the same, not that of the
\* second; no content is returned.
C9_PrimaryDetailPreserved ==
    \A r \in Req :
        /\ caught[r].at = "fallback"
              => /\ pc[r] = "close" /\ outcome[r].kind = "error"
                 /\ outcome[r].stage = "extract"
                 /\ Includes(outcome[r].text, << "Failed to extract page content:" >>)
                 /\ Includes(outcome[r].text, primaryError[r])
                 /\ caught[r].message # primaryError[r]
                       => ~Includes(outcome[r].text, caught[r].message)
        /\ (primaryError[r] # NoError /\ outcome[r].kind = "error")
              => Includes(outcome[r].text, primaryError[r])

\* Both retrievals failed, with different errors.
C9_Witness ==
    \E r \in Req :
        /\ caught[r].at = "fallback" /\ primaryError[r] # NoError
        /\ caught[r].message # primaryError[r]
        /\ outcome[r].kind = "error"

\* The first step of a request without url.
NoUrl(r) == args[r].url \in { Omitted, Given("") }
C10_Step(r) ==
    (pc[r] = "idle" /\ pc'[r] \notin { "idle", "exited" })
    => /\ pc'[r] = "done"
       /\ outcome'[r] = InvalidParams
       /\ browser' = browser
       /\ established' = established
       /\ connectCalls' = connectCalls
       /\ page' = page /\ opening' = opening

\* C10: a request whose url is missing or empty is rejected with
\* InvalidParams in its first step: it never connects or opens a page, and
\* the step leaves this.browser and the sessions as they are.
C10_RejectedBeforeSessionEnsure ==
    /\ [](\A r \in Req :
             NoUrl(r) => /\ pc[r] \in { "idle", "done", "exited" }
                         /\ connectCalls[r] = 0
                         /\ page[r] = NULL /\ opening[r] = NULL
                         /\ Completed(r) => outcome[r] = InvalidParams)
    /\ [][\A r \in Req : NoUrl(r) => C10_Step(r)]_vars

\* A request without url was rejected while a session was connected.
C10_Witness ==
    \E r \in Req :
        /\ NoUrl(r) /\ Completed(r) /\ outcome[r] = InvalidParams
        /\ browser # NULL

\* What a failed puppeteer.connect() does to its request, and what a request
\* does that finds no session.
C11_Step(r) ==
    /\ (pc[r] = "connect" /\ caught'[r].at = "connect")
          => /\ pc'[r] = "done"
             /\ outcome'[r].kind = "error" /\ outcome'[r].stage = "connect"
             /\ page'[r] = NULL /\ opening'[r] = NULL
             /\ connectCalls'[r] = connectCalls[r]
             /\ browser' = browser /\ established' = established
             /\ (\A q \in Req \ { r } : connectCalls[q] = 0) => browser' = NULL
    /\ (Accepted(r) /\ pc[r] = "idle" /\ pc'[r] \notin { "idle", "exited" }
           /\ browser = NULL)
          => (pc'[r] = "connect" /\ connectCalls'[r] = 1)

\* C11: a request whose puppeteer.connect() fails completes with the
\* connection error at once: it opened no page, issued no page.close() and
\* called connect once only.  The failure leaves this.browser as it is, which
\* is null unless another request's own connection was attempted, and null as
\* long as no connection has succeeded; a request that then finds this.browser
\* null calls connect afresh.
C11_ConnectFailureNotRetried ==
    /\ [](\A r \in Req :
             /\ connectCalls[r] <= 1
             /\ outcome[r].stage = "connect"
                   => /\ Completed(r) /\ outcome[r].kind = "error"
                      /\ page[r] = NULL /\ opening[r] = NULL
                      /\ closeCalls[r] = 0 /\ connectCalls[r] = 1
                      /\ Includes(outcome[r].text,
                                  << "Failed to connect to browserless.io:" >>))
    /\ [](established = 0 => browser = NULL)
    /\ [][\A r \in Req : C11_Step(r)]_vars

\* A request failed to connect, and the other one, finding no session,
\* connected afresh.
C11_Witness ==
    \E r, q \in Req :
        /\ Completed(r) /\ outcome[r].stage = "connect"
        /\ connectCalls[r] = 1 /\ connectCalls[q] = 1
        /\ pc[q] = "createPage" /\ browser # NULL /\ established = 1

\* The stages that follow the navigation and its stabilization pause.
LaterStages == LoopAwaits \cup { "initialWait", "settle", "netIdle", "finalRender",
                                 "evalOuter", "fallback" }

\* What the return of page.goto() leads to, and what follows the pause.
C12_Step(r) ==
    /\ (pc[r] = "goto" /\ caught'[r].at = "goto")
          => /\ pc'[r] = "close" /\ closeCalls'[r] = 1
             /\ outcome'[r].kind = "error" /\ outcome'[r].stage = "navigate"
             /\ Includes(outcome'[r].text, << url(r) >>)
             /\ slept'[r] = slept[r]
    /\ (pc[r] = "goto" /\ pc'[r] \notin { "goto", "exited" } /\ caught'[r].at # "goto")
          => /\ pc'[r] = "stabilize" /\ SleepTime(r, pc'[r]) = 1000
             /\ outcome'[r] = NoOutcome
    /\ (pc[r] = "stabilize" /\ pc'[r] \notin { "stabilize", "exited" })
          => (pc'[r] \in LaterStages /\ slept'[r] = slept[r] + 1000)
    /\ (pc'[r] \in LaterStages /\ pc[r] \notin LaterStages) => pc[r] = "stabilize"

\* C12: a request whose page.goto() fails or times out fails with the
\* navigation error, whose message names the url; it does not pause, runs
\* none of the later stages, and page.close() is issued on its page.  When
\* page.goto() succeeds the request pauses PAGE_STABILIZATION = 1000 ms, and
\* every later stage is entered only after that pause.
C12_NavigationFailureEndsRequest ==
    /\ [](\A r \in Req :
             /\ outcome[r].stage = "navigate"
                   => /\ pc[r] \in { "close", "done" } /\ outcome[r].kind = "error"
                      /\ Includes(outcome[r].text, << "Failed to load URL" >>)
                      /\ Includes(outcome[r].text, << url(r) >>)
                      /\ slept[r] = 0 /\ loopExit[r] = ""
                      /\ page[r] # NULL /\ closeCalls[r] = 1
             /\ pc[r] \in LaterStages => slept[r] >= 1000
             /\ pc[r] = "stabilize" => (sleeping(r) = 1000 /\ slept[r] = 0))
    /\ [][\A r \in Req : C12_Step(r)]_vars

\* A navigation failed and the page was closed.
C12_Witness ==
    \E r \in Req :
        /\ Completed(r) /\ outcome[r].stage = "navigate" /\ caught[r] = Nothing
        /\ pageClosed[r] /\ slept[r] = 0

\* C13: a request with scrollCount = 0 that returns content has slept
\* 1000 ms + initialWaitTime + 1000 ms in all, the network-idle wait not
\* counted: the stabilization pause, the initial wait and the final render
\* wait, and no other sleep.  With initialWaitTime = 0 there is no initial
\* wait and the total is 2000 ms.
C13_FixedSuspensionWithoutScrolling ==
    \A r \in Req :
        scrollCount(r) = 0 =>
            /\ outcome[r].kind = "content"
                  => /\ slept[r] = 1000 + initialWaitTime(r) + 1000
                     /\ initialWaitTime(r) = 0 => slept[r] = 2000
            /\ initialWaitTime(r) = 0 => pc[r] # "initialWait"
            /\ pc[r] = "initialWait" => slept[r] = 1000
            /\ pc[r] \in { "netIdle", "finalRender" }
                  => slept[r] = 1000 + initialWaitTime(r)
            /\ pc[r] \in { "evalOuter", "fallback" }
                  => slept[r] = 1000 + initialWaitTime(r) + 1000

\* A request without scrolling and without initial wait returned content.
C13_Witness ==
    \E r \in Req :
        /\ scrollCount(r) = 0 /\ args[r].initialWaitTime = Given(0)
        /\ args[r].scrollWaitTime = Given(WaitStep)
        /\ Completed(r) /\ outcome[r].kind = "content" /\ slept[r] = 2000

\* A request without scrolling returned content after an initial wait.
C13_WitnessInitialWait ==
    \E r \in Req :
        /\ scrollCount(r) = 0 /\ args[r].initialWaitTime = Given(WaitStep)
        /\ Completed(r) /\ outcome[r].kind = "content"
        /\ slept[r] = 2000 + WaitStep

\* The arguments a with every omitted optional field filled in with the
\* documented default: 3000, 0 and 3000.
C14_Filled(a) ==
    [ url |-> a.url,
      initialWaitTime |-> IF a.initialWaitTime = Omitted THEN Given(3000)
                          ELSE a.initialWaitTime,
      scrollCount |-> IF a.scrollCount = Omitted THEN Given(0) ELSE a.scrollCount,
      scrollWaitTime |-> IF a.scrollWaitTime = Omitted THEN Given(3000)
                         ELSE a.scrollWaitTime ]

C14_WitnessScrollWait ==
    \E r \in Req :
        /\ args[r].scrollWaitTime = Omitted /\ scrollCount(r) > 0
        /\ pc[r] = "settle" /\ sleeping(r) = 3000

\* How the extraction stage starts.
C15_Step(r) ==
    (pc[r] = "finalRender" /\ pc'[r] \notin { "finalRender", "exited" })
    => IF pageClosed[r]
       THEN /\ pc'[r] = "close"
            /\ outcome'[r].kind = "error" /\ outcome'[r].stage = "extract"
            /\ Includes(outcome'[r].text, PageWasClosed)
            /\ primaryError'[r] = NoError
       ELSE pc'[r] = "evalOuter" /\ outcome'[r] = NoOutcome

\* C15: when page.isClosed() holds as extractPageContent starts, the request
\* fails with the extraction error 'Page was closed before content
\* extraction' and neither the evaluation of outerHTML nor page.content() is
\* issued; this is so too when the scroll loop was left on a detachment
\* error.  Otherwise the evaluation of outerHTML is issued.
C15_ClosedPageFailsExtraction ==
    /\ [](\A r \in Req :
             Includes(outcome[r].text, PageWasClosed)
             => /\ pc[r] \in { "close", "done" } /\ pageClosed[r]
                /\ outcome[r].kind = "error" /\ outcome[r].stage = "extract"
                /\ primaryError[r] = NoError
                /\ caught[r].at \notin { "evalOuter", "fallback" })
    /\ [][\A r \in Req : C15_Step(r)]_vars

\* The scroll loop was left on a detachment error, the page was gone, and
\* the request failed at the start of the extraction.
C15_Witness ==
    \E r \in Req :
        /\ loopExit[r] = "detached" /\ pageClosed[r] /\ pc[r] = "close"
        /\ Includes(outcome[r].text, PageWasClosed)

\* The stages before the post-scroll settle pause, and those after it.
BeforeSettle == LoopAwaits \cup { "stabilize", "initialWait" }
AfterSettle == { "netIdle", "finalRender", "evalOuter", "fallback", "close", "done" }
SettleDue(r) == scrollCount(r) > 0 /\ scrollWaitTime(r) > 0

\* How the settle pause is entered and left.
C16_Step(r) ==
    /\ (pc'[r] = "netIdle" /\ pc[r] # "netIdle")
          => IF SettleDue(r) THEN pc[r] = "settle" ELSE pc[r] \in BeforeSettle
    /\ (pc[r] = "settle" /\ pc'[r] \notin { "settle", "exited" })
          => (pc'[r] = "netIdle" /\ slept'[r] = slept[r] + scrollWaitTime(r))
    /\ (pc'[r] = "settle" /\ pc[r] # "settle") => pc[r] \in BeforeSettle
    /\ pc[r] \in AfterSettle => pc'[r] # "settle"
    /\ (loopExit'[r] # "" /\ loopExit[r] = "")
          => /\ loopExit'[r] \in { "complete", "closed", "detached" }
             /\ pc'[r] = IF SettleDue(r) THEN "settle" ELSE "netIdle"

\* C16: when performScrolling is left, however it is left (the loop ran out,
\* the page was found closed at the head of an iteration, the End-key press
\* failed with a detachment error), the request pauses for scrollWaitTime if
\* scrollCount > 0 and scrollWaitTime > 0, and does not pause otherwise; the
\* pause is taken once, lasts scrollWaitTime, and is followed by the
\* network-idle wait.
C16_SettleOnceIffScrolling ==
    /\ [](\A r \in Req :
             /\ pc[r] = "settle"
                   => /\ SettleDue(r) /\ sleeping(r) = scrollWaitTime(r)
                      /\ loopExit[r] \in { "complete", "closed", "detached" }
             /\ pc[r] \in BeforeSettle \cup { "idle", "connect", "createPage",
                                             "newPage", "goto" }
                   => loopExit[r] = "")
    /\ [][\A r \in Req : C16_Step(r)]_vars

\* The loop was left before its first iteration because the page was closed,
\* and the request pauses to settle all the same.
C16_Witness ==
    \E r \in Req :
        /\ pc[r] = "settle" /\ loopExit[r] = "closed" /\ i[r] = 0
        /\ sleeping(r) = 2 * WaitStep

\* The loop ran out without scroll wait time: no settle pause.
C16_WitnessNoPause ==
    \E r \in Req :
        /\ pc[r] = "netIdle" /\ loopExit[r] = "complete" /\ scrollCount(r) > 0
        /\ scrollWaitTime(r) = 0 /\ slept[r] = 1000 + scrollCount(r) * 500

\* What follows the scroll command and the End-key press, and how an
\* iteration is started.
C17_Step(r) ==
    /\ (pc[r] = "scroll" /\ pc'[r] \notin { "scroll", "exited" })
          => IF caught'[r].at = "scroll"
             THEN pc'[r] = "pressEnd"
             ELSE pc'[r] = "scrollSleep" /\ caught'[r] = Nothing
    /\ (pc'[r] = "pressEnd" /\ pc[r] # "pressEnd")
          => (pc[r] = "scroll" /\ caught'[r].at = "scroll")
    /\ (pc[r] = "pressEnd" /\ pc'[r] \notin { "pressEnd", "exited" }
           /\ caught'[r].at # "pressEnd")
          => (pc'[r] = "scrollSleep" /\ i'[r] = i[r])
    /\ (pc[r] = "pressEnd" /\ caught'[r].at = "pressEnd" /\ ~Detachment(caught'[r]))
          => /\ pc'[r] = NextIteration(r, i[r] + 1)
             /\ pc'[r] \notin { "scrollSleep", "poll" }
             /\ i'[r] = i[r] + 1
             /\ slept'[r] = slept[r] /\ polls'[r] = 0
             /\ loopExit'[r] # "detached"
             /\ outcome'[r] = outcome[r]
    /\ (pc'[r] = "getHeight" /\ pc[r] # "getHeight")
          => /\ ~pageClosed[r] /\ i'[r] < scrollCount(r)
             /\ IF pc[r] \in { "stabilize", "initialWait" }
                THEN i'[r] = 0 ELSE i'[r] = i[r] + 1

\* C17: in a scroll iteration page.keyboard.press('End') is issued if the
\* scroll command failed and only then.  When the key press fails too, with
\* a message without detachment keyword, the iteration ends there, without
\* the 500 ms pause and without detection wait, and the loop goes on with the
\* next iteration.  The iterations are started in sequence, the first with
\* index 0 and each next with the index after, so a loop that was left
\* neither on a closed page nor on a detachment error started exactly
\* scrollCount iterations.
C17_EndKeyOnlyAfterFailedScroll ==
    /\ [](\A r \in Req :
             /\ pc[r] = "pressEnd" => caught[r].at = "scroll"
             /\ pc[r] \in LoopAwaits => (i[r] < scrollCount(r) /\ loopExit[r] = "")
             /\ loopExit[r] = "complete" => i[r] = scrollCount(r)
             /\ loopExit[r] \in { "closed", "detached" } => i[r] < scrollCount(r))
    /\ [][\A r \in Req : C17_Step(r)]_vars

\* The End-key press of the first iteration failed with a timeout, and the
\* second iteration was started without pause.
C17_Witness ==
    \E r \in Req :
        /\ caught[r] = Caught("pressEnd", << "timeout" >>)
        /\ pc[r] = "getHeight" /\ i[r] = 1
        /\ slept[r] = 1000 + initialWaitTime(r)

\* All iterations were started although every End-key press failed.
C17_WitnessComplete ==
    \E r \in Req :
        /\ caught[r] = Caught("pressEnd", << "timeout" >>)
        /\ loopExit[r] = "complete" /\ i[r] = MaxScrollCount
        /\ slept[r] = 1000 + initialWaitTime(r)

\* The stage an await belongs to, in the order of the protocol.
C18_Stage(at) ==
    CASE at = "idle" -> 0
      [] at = "connect" -> 1
      [] at \in { "createPage", "newPage" } -> 2
      [] at \in { "goto", "stabilize" } -> 3
      [] at = "initialWait" -> 4
      [] at \in LoopAwaits -> 5
      [] at = "settle" -> 6
      [] at = "netIdle" -> 7
      [] at = "finalRender" -> 8
      [] at \in { "evalOuter", "fallback" } -> 9
      [] at = "close" -> 10
      [] OTHER -> 11

\* The awaits a request can go to from `at`, besides the completion by an
\* error, which closes the page if there is one.
C18_Successors(at) ==
    CASE at = "idle" -> { "connect", "createPage" }
      [] at = "connect" -> { "createPage" }
      [] at = "createPage" -> { "newPage" }
      [] at = "newPage" -> { "goto" }
      [] at = "goto" -> { "stabilize" }
      [] at = "stabilize" -> { "initialWait", "getHeight", "settle", "netIdle" }
      [] at = "initialWait" -> { "getHeight", "settle", "netIdle" }
      [] at \in LoopAwaits -> LoopAwaits \cup { "settle", "netIdle" }
      [] at = "settle" -> { "netIdle" }
      [] at = "netIdle" -> { "finalRender" }
      [] at = "finalRender" -> { "evalOuter" }
      [] at = "evalOuter" -> { "fallback", "close" }
      [] at = "fallback" -> { "close" }
      [] at = "close" -> { "done" }
      [] OTHER -> { }

C18_Step(r) ==
    (pc'[r] \notin { pc[r], "exited" })
    => /\ C18_Stage(pc'[r]) >= C18_Stage(pc[r])
       /\ \/ pc'[r] \in C18_Successors(pc[r])
          \/ /\ outcome'[r].kind = "error" /\ outcome[r] = NoOutcome
             /\ pc'[r] = IF page[r] = NULL THEN "done" ELSE "close"
       /\ pc'[r] \in { "evalOuter", "close" } /\ pc[r] = "finalRender"
             => slept'[r] = slept[r] + 1000
       /\ closeCalls'[r] # closeCalls[r] <=> pc'[r] = "close"
       /\ (pc'[r] = "done" /\ page[r] # NULL) => pc[r] = "close"

\* C18: a request goes through its stages in the order session ensure, page
\* open, navigate, initial wait, scroll iterations, post-scroll settle,
\* network-idle wait, final render wait, extraction, page close, one await at
\* a time and never back to an earlier stage; a stage is left for the next
\* one or, on a fatal error, for the page close.  The extraction starts when
\* the 1000 ms final render wait is over, and after page.close() is issued
\* nothing follows but the completion of the request.
C18_StagesInOrder ==
    /\ [](\A r \in Req :
             /\ pc[r] \in { "evalOuter", "fallback" } => slept[r] >= 2000
             /\ closeCalls[r] > 0 => pc[r] \in { "close", "done" })
    /\ [][\A r \in Req : C18_Step(r)]_vars

\* A request went through every stage, scroll iterations and settle pause
\* included, and its page is closed.
C18_Witness ==
    \E r \in Req :
        /\ Completed(r) /\ outcome[r] = Returned("outerHTML") /\ pageClosed[r]
        /\ connectCalls[r] = 1 /\ initialWaitTime(r) > 0
        /\ scrollCount(r) = MaxScrollCount /\ loopExit[r] = "complete"
        /\ scrollWaitTime(r) = WaitStep
        /\ slept[r] > 1000 + initialWaitTime(r) + 1000 + WaitStep

\* The steps that change this.browser, and the first step of a request that
\* finds a session.
C19_Step ==
    /\ browser' # browser
          => \/ /\ browser' = NULL
                /\ signal = "disconnecting" /\ signal' = "exited"
             \/ /\ browser' # NULL
                /\ \E r \in Req : pc[r] = "connect" /\ pc'[r] = "createPage"
    /\ \A r \in Req :
          /\ (outcome'[r] # outcome[r] /\ pc'[r] # "exited") => browser' = browser
          /\ (pc'[r] = "done" /\ pc[r] # "done") => browser' = browser
          /\ (pc[r] = "idle" /\ pc'[r] \notin { "idle", "exited" } /\ browser # NULL)
                => /\ pc'[r] \in { "createPage", "done" }
                   /\ connectCalls'[r] = 0
                   /\ browser' = browser

\* C19: no step by which a request returns content or fails (at page open,
\* navigation or extraction), and no step that completes a request, changes
\* this.browser; it is set by a puppeteer.connect() that succeeds and set to
\* null only by cleanup, on the termination signal, after the disconnect.  A
\* request that finds this.browser non-null does not call connect, also when
\* an earlier request failed to open its page on that session.
C19_SessionKeptAcrossOutcomes ==
    /\ [](\A r \in Req :
             /\ (outcome[r].kind # "none" /\ connectCalls[r] = 0
                    /\ outcome[r] # InvalidParams)
                   => established > 0
             /\ browser # NULL => (established > 0 /\ signal # "exited")
             /\ (established > 0 /\ signal # "exited") => browser # NULL)
    /\ [][C19_Step]_vars

\* A request failed to open its page on the session; the other request,
\* which found the session, did not connect and opened its page on it.
C19_Witness ==
    \E r, q \in Req :
        /\ Completed(r) /\ outcome[r].stage = "open" /\ connectCalls[r] = 1
        /\ connectCalls[q] = 0 /\ pc[q] = "goto" /\ page[q] = browser
        /\ established = 1

\* C20: as long as the process runs, a request that was accepted and is
\* under way completes, with content or with an error, provided every call
\* it awaits returns or throws and every timer fires.  The scroll loop
\* runs at most scrollCount iterations, and a detection wait issues its n-th
\* poll only if (n - 1) * 500 ms is less than scrollWaitTime: at most one poll
\* per 500 ms of scrollWaitTime, rounded up.
C20_EveryRequestCompletes ==
    /\ [](\A r \in Req :
             /\ i[r] <= scrollCount(r)
             /\ pc[r] \in LoopAwaits => i[r] < scrollCount(r)
             /\ polls[r] > 0 => (polls[r] - 1) * 500 < scrollWaitTime(r)
             /\ Completed(r) => outcome[r].kind \in { "content", "error" })
    /\ \A r \in Req :
          (Accepted(r) /\ pc[r] \notin { "idle", "exited" })
             ~> (Completed(r) \/ signal = "exited")

\* The last iteration of a request is in its detection wait, which has
\* issued as many polls as its wait time of 2 * WaitStep allows.
C20_Witness ==
    \E r \in Req :
        /\ pc[r] = "pollSleep" /\ i[r] + 1 = MaxScrollCount
        /\ scrollWaitTime(r) = 2 * WaitStep
        /\ polls[r] * 500 >= 2 * WaitStep

\* C21 as claimed: new content is declared (the detection wait left for the
\* extra 1000 ms pause) only when the poll read a height strictly greater
\* than the height the document had before the scroll command of the
\* iteration.
C21_DeclaredOnlyOnActualGrowth ==
    \A r \in Req :
        pc[r] = "additional" => currentHeight[r] > actualHeight[r]

\* How the height read before the scroll command sets previousHeight, and
\* how new content is declared.
C21_Step(r) ==
    /\ (pc[r] = "getHeight" /\ pc'[r] \notin { "getHeight", "exited" })
          => /\ pc'[r] = "scroll"
             /\ IF caught'[r].at = "getHeight"
                THEN previousHeight'[r] = 0
                ELSE previousHeight'[r] = actualHeight'[r]
    /\ (pc'[r] = "additional" /\ pc[r] # "additional")
          => /\ pc[r] = "poll" /\ caught'[r] = Nothing
             /\ currentHeight'[r] > previousHeight[r]
             /\ previousHeight'[r] = previousHeight[r]
             /\ actualHeight'[r] = actualHeight[r]

\* C21 as amended: new content is declared only when a poll read a height
\* strictly greater than previousHeight, which is the height read before
\* the scroll command of the iteration, or 0 when that read failed.  So
\* after a height read that succeeded the height has grown beyond the
\* document's height before the scroll; after one that failed, the first
\* poll that succeeds declares new content whatever the height is.
C21_DeclaredOnGrowthBeyondPreviousHeight ==
    /\ [](\A r \in Req :
             /\ pc[r] \in LoopAwaits \ { "getHeight" }
                   => /\ actualHeight[r] \in Heights
                      /\ previousHeight[r] \in { 0, actualHeight[r] }
             /\ (pc[r] = "scroll" /\ caught[r].at = "getHeight")
                   => previousHeight[r] = 0
             /\ pc[r] = "additional"
                   => /\ currentHeight[r] > previousHeight[r]
                      /\ previousHeight[r] # 0 => currentHeight[r] > actualHeight[r]
             /\ pc[r] = "pollSleep" => previousHeight[r] # 0)
    /\ [][\A r \in Req : C21_Step(r)]_vars

\* New content was declared after a failed height read although the height
\* the poll read is no greater than the height before the scroll.
C21_Witness ==
    \E r \in Req :
        /\ pc[r] = "additional" /\ previousHeight[r] = 0
        /\ currentHeight[r] <= actualHeight[r]

=============================================================================
